---- MODULE Spec2Model ----
(***************************************************************************)
(* Model of the submission ingestion endpoint of vupi-service              *)
(* (src/main.py, POST /questions, create_submission).                      *)
(*                                                                         *)
(* Python strings are modelled as sequences of one-character strings, so   *)
(* that lower(), f-string formatting and base64 decoding are computed and  *)
(* not assumed.  The object store and the database are environments whose  *)
(* calls may succeed or fail; each outcome is an input of the action.      *)
(***************************************************************************)
EXTENDS Integers, Sequences, FiniteSets, TLC

(***************************************************************************)
(* Bounds of the model.                                                    *)
(***************************************************************************)
\* Longest item list of a submission body.
MaxItems == 3
\* Number of requests served concurrently in SpecConc / SpecCollide.
NumRequests == 2

Requests == 1..NumRequests

(***************************************************************************)
(* Strings.                                                                *)
(***************************************************************************)
UpperCase == <<"A","B","C","D","E","F","G","H","I","J","K","L","M",
               "N","O","P","Q","R","S","T","U","V","W","X","Y","Z">>
LowerCase == <<"a","b","c","d","e","f","g","h","i","j","k","l","m",
               "n","o","p","q","r","s","t","u","v","w","x","y","z">>
DigitChars == <<"0","1","2","3","4","5","6","7","8","9">>

\* Characters outside ASCII that the inputs of the model may carry.
NonAscii == {"~e"}

\* str.lower() on one character.
LowerChar(c) ==
    IF \E k \in 1..26 : UpperCase[k] = c
    THEN LowerCase[CHOOSE k \in 1..26 : UpperCase[k] = c]
    ELSE c

\* str.lower()
lower(s) == [i \in 1..Len(s) |-> LowerChar(s[i])]

\* str(n) for a natural number n, as the f-string formats image_counter.
RECURSIVE IntToStr(_)
IntToStr(n) ==
    IF n < 10 THEN <<DigitChars[n + 1]>>
    ELSE IntToStr(n \div 10) \o <<DigitChars[(n % 10) + 1]>>

\* item.type.lower() == "image"
IsImageCaseSensitive(type) == type = <<"i","m","a","g","e">>
IsImage(type) == lower(type) = <<"i","m","a","g","e">>

\* f"{question_uuid}.png", the value filename holds before the loop.
InitialFilename(question_uuid) == question_uuid \o <<".","p","n","g">>

\* f"{question_uuid}_{image_counter}.png" (both branches of the if are the same).
Filename(question_uuid, image_counter) ==
    question_uuid \o <<"_">> \o IntToStr(image_counter) \o <<".","p","n","g">>

\* image_counter += 1
CounterStuck(image_counter) == image_counter
NextCounter(image_counter) == image_counter + 1

\* IMAGE_BUCKET, abbreviated to its initials.
IMAGE_BUCKET == <<"v","q","i">>

\* storage.from_(IMAGE_BUCKET).get_public_url(filename): the project URL,
\* the public-object route, the bucket and the object name.
SUPABASE_URL == <<"h",":">>
get_public_url(filename) == SUPABASE_URL \o <<"/">> \o IMAGE_BUCKET \o <<"/">> \o filename

(***************************************************************************)
(* base64.b64decode(s) with its defaults (validate=False), as CPython's    *)
(* binascii.a2b_base64 computes it in non-strict mode: characters outside  *)
(* the alphabet are skipped, a pad sequence that completes a quad ends the *)
(* parse, and leftover characters of an incomplete quad are an error.      *)
(***************************************************************************)
B64Alphabet == UpperCase \o LowerCase \o DigitChars \o <<"+","/">>

IsB64Char(c) == \E k \in 1..64 : B64Alphabet[k] = c
table_a2b_base64(c) == (CHOOSE k \in 1..64 : B64Alphabet[k] = c) - 1

DecodeStart == [quad_pos |-> 0, leftchar |-> 0, pads |-> 0, out |-> <<>>, done |-> FALSE]

\* One data character added to the quad being assembled.
DecodeData(st, v) ==
    CASE st.quad_pos = 0 ->
           [st EXCEPT !.quad_pos = 1, !.leftchar = v, !.pads = 0]
      [] st.quad_pos = 1 ->
           [st EXCEPT !.quad_pos = 2, !.pads = 0,
                      !.out = Append(@, (st.leftchar * 4 + v \div 16) % 256),
                      !.leftchar = v % 16]
      [] st.quad_pos = 2 ->
           [st EXCEPT !.quad_pos = 3, !.pads = 0,
                      !.out = Append(@, (st.leftchar * 16 + v \div 4) % 256),
                      !.leftchar = v % 4]
      [] OTHER ->
           [st EXCEPT !.quad_pos = 0, !.pads = 0,
                      !.out = Append(@, (st.leftchar * 64 + v) % 256),
                      !.leftchar = 0]

RECURSIVE a2b_base64_loop(_, _, _)
a2b_base64_loop(s, i, st) ==
    IF i > Len(s) \/ st.done THEN st
    ELSE IF s[i] = "=" THEN
        IF st.quad_pos >= 2 /\ st.quad_pos + st.pads + 1 >= 4
        THEN [st EXCEPT !.done = TRUE]
        ELSE a2b_base64_loop(s, i + 1,
                 [st EXCEPT !.pads = IF st.quad_pos >= 2 THEN @ + 1 ELSE @])
    ELSE IF ~IsB64Char(s[i]) THEN a2b_base64_loop(s, i + 1, st)
    ELSE a2b_base64_loop(s, i + 1, DecodeData(st, table_a2b_base64(s[i])))

\* The result of a decode: ok is FALSE when b64decode raises.
DecodeError == [ok |-> FALSE, bytes |-> <<>>]

b64decode(s) ==
    IF \E i \in 1..Len(s) : s[i] \in NonAscii THEN DecodeError
    ELSE LET st == a2b_base64_loop(s, 1, DecodeStart)
         IN  IF ~st.done /\ st.quad_pos # 0 THEN DecodeError
             ELSE [ok |-> TRUE, bytes |-> st.out]

(***************************************************************************)
(* Request bodies.  A JSON value is a tag with a payload; "absent" is a    *)
(* missing field and "object" a value of the wrong JSON type that pydantic *)
(* cannot coerce to the declared one.                                      *)
(***************************************************************************)
JInt(n) == [tag |-> "int", n |-> n]
JStr(s) == [tag |-> "str", s |-> s]
JList(l) == [tag |-> "list", l |-> l]

\* The typed models: class DataItem, class FilterModel, class Submission.
DataItem(id, value, type) == [id |-> id, value |-> value, type |-> type]
FilterModel(materia, assunto, subAssunto, faculdade, ano) ==
    [materia |-> materia, assunto |-> assunto, subAssunto |-> subAssunto,
     faculdade |-> faculdade, ano |-> ano]
Submission(data, filter) == [data |-> data, filter |-> filter]

\* The JSON document of a typed value.
ItemJson(item) ==
    [id |-> JInt(item.id), value |-> JStr(item.value), type |-> JStr(item.type)]
FilterJson(f) ==
    [materia |-> JList(f.materia), assunto |-> JList(f.assunto),
     subAssunto |-> JList(f.subAssunto),
     faculdade |-> JStr(f.faculdade), ano |-> JStr(f.ano)]
SubmissionJson(sub) ==
    [data |-> [tag |-> "list", l |-> [i \in 1..Len(sub.data) |-> ItemJson(sub.data[i])]],
     filter |-> [tag |-> "object", o |-> FilterJson(sub.filter)]]

\* int(s) for a string of digits.
IsNumeric(s) == s # <<>> /\ \A i \in 1..Len(s) : \E d \in 1..10 : DigitChars[d] = s[i]
DigitValue(c) == (CHOOSE d \in 1..10 : DigitChars[d] = c) - 1
RECURSIVE StrToInt(_)
StrToInt(s) ==
    IF s = <<>> THEN 0 ELSE 10 * StrToInt(SubSeq(s, 1, Len(s) - 1)) + DigitValue(s[Len(s)])

\* Field validators of pydantic for int, str and List[str] fields.  An int
\* field takes a JSON number, and a JSON string of digits, which it converts;
\* the str and list fields of the model's inputs are strings and lists, or
\* values of another JSON type that no pydantic version converts.
int_validator(j) == j.tag = "int" \/ (j.tag = "str" /\ IsNumeric(j.s))
int_value(j) == IF j.tag = "str" THEN StrToInt(j.s) ELSE j.n
str_validator(j) == j.tag = "str"
list_str_validator(j) == j.tag = "list"

DataItemValid(j) ==
    int_validator(j.id) /\ str_validator(j.value) /\ str_validator(j.type)
FilterModelValid(j) ==
    /\ list_str_validator(j.materia)
    /\ list_str_validator(j.assunto)
    /\ list_str_validator(j.subAssunto)
    /\ str_validator(j.faculdade)
    /\ str_validator(j.ano)

\* Validation of the request body against class Submission.
AcceptAnything(body) == TRUE
SubmissionValid(body) ==
    /\ body.data.tag = "list"
    /\ \A i \in 1..Len(body.data.l) : DataItemValid(body.data.l[i])
    /\ body.filter.tag = "object"
    /\ FilterModelValid(body.filter.o)

\* The Submission object the handler receives for a body.
ParseItem(j) == DataItem(int_value(j.id), j.value.s, j.type.s)
ParseSubmission(body) ==
    Submission([i \in 1..Len(body.data.l) |-> ParseItem(body.data.l[i])],
               FilterModel(body.filter.o.materia.l, body.filter.o.assunto.l,
                           body.filter.o.subAssunto.l,
                           body.filter.o.faculdade.s, body.filter.o.ano.s))

(***************************************************************************)
(* Inputs of the model.                                                    *)
(***************************************************************************)
\* Item types: two spellings of "image" and a type that is not "image".
ImageTypes == {<<"i","m","a","g","e">>, <<"I","m","a","g","E">>}
OtherTypes == {<<"T","x","t">>}
\* Values of image items: "QQ==" decodes to one byte; "Q" is an incomplete
\* quad and does not decode; "Q!Q==" is not base64 yet decodes, the "!"
\* being skipped.
ImageValues == {<<"Q","Q","=","=">>, <<"Q">>, <<"Q","!","Q","=","=">>}
\* Values of other items: any text, here one with a quote and a character
\* outside ASCII.
OtherValues == {<<"Q">>, <<"\"","~e">>}

\* The value and type of an item: every image value under the type "image",
\* the value that decodes under the other spelling too (decoding does not
\* read the type), and every other value under the other types.
Payloads ==
    {[value |-> v, type |-> <<"i","m","a","g","e">>] : v \in ImageValues}
        \cup {[value |-> <<"Q","Q","=","=">>, type |-> t] : t \in ImageTypes}
        \cup {[value |-> v, type |-> t] : v \in OtherValues, t \in OtherTypes}

\* The caller assigns the ids: here descending ones, or the same one twice.
IdChoices(n) == {[i \in 1..n |-> n + 1 - i], [i \in 1..n |-> 7]}

Filter1 == FilterModel(<< <<"m">> >>, << <<"a">> >>, <<>>, <<"X">>, <<"2","4">>)
Filter2 == FilterModel(<< <<"m">>, <<"f">> >>, <<>>, << <<"s">> >>, <<>>, <<"2","5">>)
Filters == {Filter1, Filter2}

ItemSeqs ==
    UNION { { [i \in 1..n |-> DataItem(ids[i], p[i].value, p[i].type)] :
                ids \in IdChoices(n), p \in [1..n -> Payloads] } :
            n \in 0..MaxItems }
ValidSubmissions == {Submission(data, filter) : data \in ItemSeqs, filter \in Filters}

\* Bodies with one defect each: a missing or mistyped required field.
BaseBody == SubmissionJson(Submission(
                <<DataItem(1, <<"Q","Q","=","=">>, <<"i","m","a","g","e">>)>>, Filter1))
BadBodies ==
    { [BaseBody EXCEPT !.filter.tag = "absent"],
      [BaseBody EXCEPT !.data.tag = "str"],
      [BaseBody EXCEPT !.data.l[1].type.tag = "absent"],
      [BaseBody EXCEPT !.data.l[1].id.tag = "list"],
      [BaseBody EXCEPT !.filter.o.materia.tag = "str"],
      [BaseBody EXCEPT !.filter.o.ano.tag = "absent"] }

\* A body whose id is a string of digits where an integer is declared.
CoercedBodies == { [BaseBody EXCEPT !.data.l[1].id = JStr(<<"5">>)] }

Bodies == {SubmissionJson(sub) : sub \in ValidSubmissions} \cup BadBodies \cup CoercedBodies

(***************************************************************************)
(* json.dumps(record["data"]) and the JSONB value Postgres stores for it.  *)
(* json.dumps escapes quotes, backslashes and (ensure_ascii) every         *)
(* character outside ASCII; the JSONB input function undoes the escapes.   *)
(***************************************************************************)
json_escape_char(c) ==
    IF c \in NonAscii THEN <<"\\u", c>>
    ELSE IF c = "\"" \/ c = "\\" THEN <<"\\", c>>
    ELSE <<c>>

RECURSIVE json_escape(_)
json_escape(s) ==
    IF s = <<>> THEN <<>> ELSE json_escape_char(Head(s)) \o json_escape(Tail(s))

RECURSIVE json_unescape(_)
json_unescape(s) ==
    IF s = <<>> THEN <<>>
    ELSE IF Head(s) \in {"\\u", "\\"} /\ Len(s) >= 2
         THEN <<s[2]>> \o json_unescape(Tail(Tail(s)))
         ELSE <<Head(s)>> \o json_unescape(Tail(s))

\* One dict of processed_data as a JSON object: its members in insertion order.
json_object(d) ==
    << [key |-> "id", val |-> JInt(d.id)],
       [key |-> "type", val |-> JStr(json_escape(d.type))],
       [key |-> "value", val |-> JStr(json_escape(d.value))] >>

json_dumps(data) == [i \in 1..Len(data) |-> json_object(data[i])]

Member(obj, key) == obj[CHOOSE k \in 1..Len(obj) : obj[k].key = key].val

jsonb_in(doc) ==
    [i \in 1..Len(doc) |->
        [id |-> Member(doc[i], "id").n,
         type |-> json_unescape(Member(doc[i], "type").s),
         value |-> json_unescape(Member(doc[i], "value").s)]]

(***************************************************************************)
(* State.  Every local of create_submission is a function of the request.  *)
(***************************************************************************)
VARIABLES
    pc,               \* where each request is
    body,             \* the JSON body of the request
    submission,       \* the validated Submission
    conn,             \* the connection get_db yields: "none", "open", "closed"
    cursor,           \* the cursor of the request: "none", "open", "closed"
    returning,        \* the result set of the cursor (RETURNING id)
    question_uuid,
    filename,
    materia, assunto, sub_assunto, faculdade, ano,
    processed_data,
    image_counter,
    item_index,       \* position in submission.data of the loop's item
    image_bytes,
    record,
    inserted_id,
    response,         \* the HTTP response of the request
    calls,            \* history: the calls each request made to its collaborators
    questions,        \* the committed rows of table questions
    transaction,      \* the uncommitted rows of each connection's transaction
    questions_id_seq, \* the sequence behind id SERIAL
    bucket,           \* the objects of IMAGE_BUCKET
    issued            \* the UUIDs uuid4() has returned

request_vars == <<body, submission>>
db_handles == <<conn, cursor, returning>>
filter_locals == <<materia, assunto, sub_assunto, faculdade, ano>>
loop_locals == <<filename, processed_data, image_counter, item_index, image_bytes>>
insert_locals == <<record, inserted_id>>
database == <<questions, transaction, questions_id_seq>>

vars == <<pc, request_vars, db_handles, question_uuid, filter_locals, loop_locals,
          insert_locals, response, calls, database, bucket, issued>>

NoSubmission == Submission(<<>>, FilterModel(<<>>, <<>>, <<>>, <<>>, <<>>))
NoRecord == [question_id |-> <<>>, materia |-> <<>>, assunto |-> <<>>,
             sub_assunto |-> <<>>, faculdade |-> <<>>, ano |-> <<>>, data |-> <<>>]
NoResponse == [status |-> 0, detail |-> "", submission_id |-> 0]

\* The state before any request has arrived: init_db() has created the table.
Init ==
    /\ pc = [r \in Requests |-> "idle"]
    /\ body = [r \in Requests |-> SubmissionJson(NoSubmission)]
    /\ submission = [r \in Requests |-> NoSubmission]
    /\ conn = [r \in Requests |-> "none"]
    /\ cursor = [r \in Requests |-> "none"]
    /\ returning = [r \in Requests |-> 0]
    /\ question_uuid = [r \in Requests |-> <<>>]
    /\ filename = [r \in Requests |-> <<>>]
    /\ materia = [r \in Requests |-> <<>>]
    /\ assunto = [r \in Requests |-> <<>>]
    /\ sub_assunto = [r \in Requests |-> <<>>]
    /\ faculdade = [r \in Requests |-> <<>>]
    /\ ano = [r \in Requests |-> <<>>]
    /\ processed_data = [r \in Requests |-> <<>>]
    /\ image_counter = [r \in Requests |-> 0]
    /\ item_index = [r \in Requests |-> 0]
    /\ image_bytes = [r \in Requests |-> <<>>]
    /\ record = [r \in Requests |-> NoRecord]
    /\ inserted_id = [r \in Requests |-> 0]
    /\ response = [r \in Requests |-> NoResponse]
    /\ calls = [r \in Requests |-> <<>>]
    /\ questions = {}
    /\ transaction = [r \in Requests |-> {}]
    /\ questions_id_seq = 0
    /\ bucket = {}
    /\ issued = {}

(***************************************************************************)
(* Responses.                                                              *)
(***************************************************************************)
\* FastAPI answers a body that fails validation with 422; main.py installs
\* no handler of its own for RequestValidationError.
ValidationStatus == 422
DecodeStatus == 400
UploadStatus == 500
InsertStatus == 500
\* An exception that is no HTTPException reaches the server's default handler.
UnhandledStatus == 500
SuccessStatus == 200

HTTPException(status_code, detail) ==
    [status |-> status_code, detail |-> detail, submission_id |-> 0]

Success(id) ==
    [status |-> SuccessStatus, detail |-> "Submission created successfully",
     submission_id |-> id]

Call(op, item, name, result) == [op |-> op, item |-> item, name |-> name, result |-> result]

(***************************************************************************)
(* The steps of the item loop.                                             *)
(***************************************************************************)
\* except Exception around b64decode
DecodeNeverRaises(decoded) == FALSE
DecodeRaises(decoded) == ~decoded.ok

\* The upload call failed: it raised, or "if not res" found a falsy result.
UploadFailedOnlyIfRaised(res) == res = "raised"
UploadFailedOnlyIfFalsy(res) == res = "falsy"
UploadNeverFails(res) == FALSE
UploadFailed(res) == res \in {"falsy", "raised"}

\* processed_data.append({"id": item.id, "type": item.type, "value": public_url})
ImageEntryRaw(item, public_url) == [id |-> item.id, type |-> item.type, value |-> item.value]
ImageEntry(item, public_url) == [id |-> item.id, type |-> item.type, value |-> public_url]

\* processed_data.append({"id": item.id, "type": item.type, "value": item.value})
PassThroughSwapped(item) == [id |-> item.id, type |-> item.value, value |-> item.type]
PassThroughLowered(item) == [id |-> item.id, type |-> lower(item.type), value |-> item.value]
PassThrough(item) == [id |-> item.id, type |-> item.type, value |-> item.value]

\* A trailing comma makes the right-hand side a tuple of one element.
TupleOf(x) == <<x>>

\* The tuple reaches the column as it is.
KeepTuple(t) == t

\* psycopg2 adapts a Python tuple to a parenthesised SQL list; a list of one
\* expression is that expression.
adapt_tuple(t) == t[1]

\* The outcomes the object store can give an upload under a name: it refuses
\* a name that exists (the call passes no upsert option).
UploadOutcomes(name) ==
    IF \E o \in bucket : o.name = name THEN {"raised"}
    ELSE {"stored", "falsy", "raised"}

(***************************************************************************)
(* Actions.                                                                *)
(***************************************************************************)
\* A request arrives.
Receive(r, b) ==
    /\ pc[r] = "idle"
    /\ body' = [body EXCEPT ![r] = b]
    /\ pc' = [pc EXCEPT ![r] = "Received"]
    /\ UNCHANGED <<submission, db_handles, question_uuid, filter_locals, loop_locals,
                   insert_locals, response, calls, database, bucket, issued>>

\* FastAPI resolves the handler's parameters: get_db opens the connection and
\* the body is validated; a body that fails ends the request.
Validate(r) ==
    /\ pc[r] = "Received"
    /\ IF SubmissionValid(body[r])
       THEN /\ submission' = [submission EXCEPT ![r] = ParseSubmission(body[r])]
            /\ conn' = [conn EXCEPT ![r] = "open"]
            /\ pc' = [pc EXCEPT ![r] = "Validated"]
            /\ UNCHANGED response
       ELSE /\ response' = [response EXCEPT
                               ![r] = HTTPException(ValidationStatus, "validation error")]
            /\ conn' = [conn EXCEPT ![r] = "closed"]
            /\ pc' = [pc EXCEPT ![r] = "Error"]
            /\ UNCHANGED submission
    /\ UNCHANGED <<body, cursor, returning, question_uuid, filter_locals, loop_locals,
                   insert_locals, calls, database, bucket, issued>>

\* Lines 111-124: the handler's prologue, with u the value of uuid.uuid4().
Begin(r, u) ==
    /\ pc[r] = "Validated"
    /\ question_uuid' = [question_uuid EXCEPT ![r] = u]
    /\ issued' = issued \cup {u}
    /\ filename' = [filename EXCEPT ![r] = InitialFilename(u)]
    /\ cursor' = [cursor EXCEPT ![r] = "open"]
    /\ materia' = [materia EXCEPT ![r] = TupleOf(submission[r].filter.materia)]
    /\ assunto' = [assunto EXCEPT ![r] = TupleOf(submission[r].filter.assunto)]
    /\ sub_assunto' = [sub_assunto EXCEPT ![r] = TupleOf(submission[r].filter.subAssunto)]
    /\ faculdade' = [faculdade EXCEPT ![r] = TupleOf(submission[r].filter.faculdade)]
    /\ ano' = [ano EXCEPT ![r] = TupleOf(submission[r].filter.ano)]
    /\ processed_data' = [processed_data EXCEPT ![r] = <<>>]
    /\ image_counter' = [image_counter EXCEPT ![r] = 1]
    /\ item_index' = [item_index EXCEPT ![r] = 1]
    /\ calls' = [calls EXCEPT ![r] = Append(@, Call("uuid4", 0, u, "ok"))]
    /\ pc' = [pc EXCEPT ![r] = "loop"]
    /\ UNCHANGED <<request_vars, conn, returning, image_bytes, insert_locals,
                   response, database, bucket>>

\* One iteration of the loop up to the upload call: a non-image item is
\* appended as it is; an image item is decoded and named.
LoopStep(r) ==
    /\ pc[r] = "loop"
    /\ item_index[r] <= Len(submission[r].data)
    /\ LET item == submission[r].data[item_index[r]]
           decoded == b64decode(item.value)
       IN  IF ~IsImage(item.type)
           THEN /\ processed_data' = [processed_data EXCEPT
                                          ![r] = Append(@, PassThrough(item))]
                /\ item_index' = [item_index EXCEPT ![r] = @ + 1]
                /\ UNCHANGED <<pc, conn, filename, image_counter, image_bytes,
                               response, calls>>
           ELSE IF DecodeRaises(decoded)
           THEN /\ response' = [response EXCEPT
                    ![r] = HTTPException(DecodeStatus, "Error decoding image data")]
                /\ calls' = [calls EXCEPT
                    ![r] = Append(@, Call("b64decode", item_index[r], <<>>, "raised"))]
                /\ conn' = [conn EXCEPT ![r] = "closed"]
                /\ pc' = [pc EXCEPT ![r] = "Error"]
                /\ UNCHANGED <<filename, processed_data, image_counter, item_index,
                               image_bytes>>
           ELSE /\ image_bytes' = [image_bytes EXCEPT ![r] = decoded.bytes]
                /\ filename' = [filename EXCEPT
                                   ![r] = Filename(question_uuid[r], image_counter[r])]
                /\ image_counter' = [image_counter EXCEPT ![r] = NextCounter(@)]
                /\ calls' = [calls EXCEPT
                    ![r] = Append(@, Call("b64decode", item_index[r], <<>>, "ok"))]
                /\ pc' = [pc EXCEPT ![r] = "upload"]
                /\ UNCHANGED <<conn, processed_data, item_index, response>>
    /\ UNCHANGED <<request_vars, cursor, returning, question_uuid, filter_locals,
                   insert_locals, database, bucket, issued>>

\* Lines 139-146: the upload call, with res what the object store does.
Upload(r, res) ==
    /\ pc[r] = "upload"
    /\ res \in UploadOutcomes(filename[r])
    /\ calls' = [calls EXCEPT
                    ![r] = Append(@, Call("upload", item_index[r], filename[r], res))]
    /\ bucket' = IF res = "stored"
                 THEN bucket \cup {[name |-> filename[r], bytes |-> image_bytes[r]]}
                 ELSE bucket
    /\ IF UploadFailed(res)
       THEN /\ response' = [response EXCEPT
                               ![r] = HTTPException(UploadStatus, "Error uploading image")]
            /\ conn' = [conn EXCEPT ![r] = "closed"]
            /\ pc' = [pc EXCEPT ![r] = "Error"]
       ELSE /\ pc' = [pc EXCEPT ![r] = "get_public_url"]
            /\ UNCHANGED <<response, conn>>
    /\ UNCHANGED <<request_vars, cursor, returning, question_uuid, filter_locals,
                   loop_locals, insert_locals, database, issued>>

\* Lines 148-150: the public URL is resolved and the item appended; the call
\* is outside every try block.
GetPublicUrl(r, ok) ==
    /\ pc[r] = "get_public_url"
    /\ LET item == submission[r].data[item_index[r]]
           public_url == get_public_url(filename[r])
       IN  IF ok
           THEN /\ processed_data' = [processed_data EXCEPT
                                          ![r] = Append(@, ImageEntry(item, public_url))]
                /\ item_index' = [item_index EXCEPT ![r] = @ + 1]
                /\ calls' = [calls EXCEPT ![r] = Append(@,
                                 Call("get_public_url", item_index[r], filename[r], "ok"))]
                /\ pc' = [pc EXCEPT ![r] = "loop"]
                /\ UNCHANGED <<response, conn>>
           ELSE /\ response' = [response EXCEPT
                       ![r] = HTTPException(UnhandledStatus, "Internal Server Error")]
                /\ calls' = [calls EXCEPT ![r] = Append(@,
                                 Call("get_public_url", item_index[r], filename[r], "raised"))]
                /\ conn' = [conn EXCEPT ![r] = "closed"]
                /\ pc' = [pc EXCEPT ![r] = "Error"]
                /\ UNCHANGED <<processed_data, item_index>>
    /\ UNCHANGED <<request_vars, cursor, returning, question_uuid, filter_locals,
                   filename, image_counter, image_bytes, insert_locals, database,
                   bucket, issued>>

\* Lines 155-163: the loop has ended and the record is assembled.
Assemble(r) ==
    /\ pc[r] = "loop"
    /\ item_index[r] > Len(submission[r].data)
    /\ record' = [record EXCEPT ![r] =
                     [question_id |-> question_uuid[r],
                      materia |-> materia[r],
                      assunto |-> assunto[r],
                      sub_assunto |-> sub_assunto[r],
                      faculdade |-> faculdade[r],
                      ano |-> ano[r],
                      data |-> processed_data[r]]]
    /\ pc' = [pc EXCEPT ![r] = "Assembled"]
    /\ UNCHANGED <<request_vars, db_handles, question_uuid, filter_locals, loop_locals,
                   inserted_id, response, calls, database, bucket, issued>>

(***************************************************************************)
(* The insert transaction.                                                 *)
(***************************************************************************)
\* The row the INSERT statement makes of its parameters, under the id the
\* sequence gives it.
QuestionRow(rec, id) ==
    [id |-> id,
     question_id |-> rec.question_id,
     materia |-> adapt_tuple(rec.materia),
     assunto |-> adapt_tuple(rec.assunto),
     sub_assunto |-> adapt_tuple(rec.sub_assunto),
     faculdade |-> adapt_tuple(rec.faculdade),
     ano |-> adapt_tuple(rec.ano),
     data |-> jsonb_in(json_dumps(rec.data))]

\* question_id UUID UNIQUE: a committed row holds the same question_id.
NoUniqueViolation(question_id) == FALSE
UniqueViolation(question_id) == \E row \in questions : row.question_id = question_id

\* The statement never returns.
WaitsForever(r, question_id) == TRUE

\* An uncommitted row of another transaction holds the same question_id: the
\* statement waits for that transaction to end.
WaitsForOther(r, question_id) ==
    \E o \in Requests \ {r} : \E row \in transaction[o] : row.question_id = question_id

\* nextval of the sequence behind id SERIAL
nextval(seq) == seq + 1

\* db.rollback(): the uncommitted rows of the transaction are discarded.
RollbackKeeps(uncommitted) == uncommitted
Rollback(uncommitted) == {}

\* inserted_id = cursor.fetchone()["id"]
FetchId(result) == result

\* Lines 171-179: cursor.execute of the INSERT statement.  ok is FALSE when
\* the statement fails for a reason other than the UNIQUE constraint.
Execute(r, ok) ==
    /\ pc[r] = "Assembled"
    /\ ~WaitsForOther(r, record[r].question_id)
    /\ LET id == nextval(questions_id_seq)
           done == ok /\ ~UniqueViolation(record[r].question_id)
       IN  /\ questions_id_seq' = IF ok THEN id ELSE questions_id_seq
           /\ transaction' = [transaction EXCEPT
                                 ![r] = IF done THEN {QuestionRow(record[r], id)} ELSE @]
           /\ returning' = [returning EXCEPT ![r] = IF done THEN id ELSE @]
           /\ calls' = [calls EXCEPT ![r] = Append(@,
                            Call("execute", 0, <<>>, IF done THEN "ok" ELSE "raised"))]
           /\ pc' = [pc EXCEPT ![r] = IF done THEN "commit" ELSE "except"]
    /\ UNCHANGED <<request_vars, conn, cursor, question_uuid, filter_locals, loop_locals,
                   insert_locals, response, questions, bucket, issued>>

\* Line 180: db.commit()
Commit(r, ok) ==
    /\ pc[r] = "commit"
    /\ questions' = IF ok THEN questions \cup transaction[r] ELSE questions
    /\ transaction' = [transaction EXCEPT ![r] = IF ok THEN {} ELSE @]
    /\ calls' = [calls EXCEPT ![r] = Append(@,
                     Call("commit", 0, <<>>, IF ok THEN "ok" ELSE "raised"))]
    /\ pc' = [pc EXCEPT ![r] = IF ok THEN "Persisted" ELSE "except"]
    /\ UNCHANGED <<request_vars, db_handles, question_uuid, filter_locals, loop_locals,
                   insert_locals, response, questions_id_seq, bucket, issued>>

\* Lines 181-182 and 186-189 after a commit: the id is read and the record
\* printed, both still inside the try block; then the cursor is closed and
\* the success response returned.  ok is FALSE when reading or printing raises.
Respond(r, ok) ==
    /\ pc[r] = "Persisted"
    /\ calls' = [calls EXCEPT ![r] = Append(@,
                     Call("fetchone", 0, <<>>, IF ok THEN "ok" ELSE "raised"))]
    /\ IF ok
       THEN /\ inserted_id' = [inserted_id EXCEPT ![r] = FetchId(returning[r])]
            /\ cursor' = [cursor EXCEPT ![r] = "closed"]
            /\ response' = [response EXCEPT ![r] = Success(FetchId(returning[r]))]
            /\ conn' = [conn EXCEPT ![r] = "closed"]
            /\ pc' = [pc EXCEPT ![r] = "Responded"]
       ELSE /\ pc' = [pc EXCEPT ![r] = "except"]
            /\ UNCHANGED <<inserted_id, cursor, response, conn>>
    /\ UNCHANGED <<request_vars, returning, question_uuid, filter_locals, loop_locals,
                   record, database, bucket, issued>>

\* Lines 183-187: the except block rolls back and raises, the finally block
\* closes the cursor, and get_db closes the connection.
Except(r) ==
    /\ pc[r] = "except"
    /\ transaction' = [transaction EXCEPT ![r] = Rollback(@)]
    /\ calls' = [calls EXCEPT ![r] = Append(@, Call("rollback", 0, <<>>, "ok"))]
    /\ cursor' = [cursor EXCEPT ![r] = "closed"]
    /\ response' = [response EXCEPT
                       ![r] = HTTPException(InsertStatus, "Error inserting record")]
    /\ conn' = [conn EXCEPT ![r] = "closed"]
    /\ pc' = [pc EXCEPT ![r] = "Error"]
    /\ UNCHANGED <<request_vars, returning, question_uuid, filter_locals, loop_locals,
                   insert_locals, questions, questions_id_seq, bucket, issued>>

(***************************************************************************)
(* Specifications.                                                         *)
(***************************************************************************)
\* The values str(uuid.uuid4()) can take.  A value that was not returned
\* before is named after the request that draws it (the values are
\* interchangeable, so the naming loses nothing).
UUID(r) == <<"u">> \o IntToStr(r)

\* Every request draws the same value.
uuid4_same(r, reuse) == {UUID(1)}

\* uuid4() in request r returns a value it has not returned before; with
\* reuse, it may also return one it has returned.
uuid4(r, reuse) == {UUID(r)} \cup (IF reuse THEN issued ELSE {})

\* Every step of a request after its arrival.
Handle(r, reuse) ==
    \/ Validate(r)
    \/ \E u \in uuid4(r, reuse) : Begin(r, u)
    \/ LoopStep(r)
    \/ \E res \in {"stored", "falsy", "raised"} : Upload(r, res)
    \/ \E ok \in BOOLEAN : GetPublicUrl(r, ok)
    \/ Assemble(r)
    \/ \E ok \in BOOLEAN : Execute(r, ok)
    \/ \E ok \in BOOLEAN : Commit(r, ok)
    \/ \E ok \in BOOLEAN : Respond(r, ok)
    \/ Except(r)

\* One request, with any body of the model.
Next ==
    \/ pc[1] = "idle" /\ \E b \in Bodies : Receive(1, b)
    \/ Handle(1, FALSE)

Spec == Init /\ [][Next]_vars

\* The request under the scheduling the server gives it: the thread that
\* runs the handler takes its next step whenever it can, every call it makes
\* returning with a result or an error.
SpecLive == Spec /\ WF_vars(Handle(1, FALSE))

\* The bodies of the requests that run concurrently: a text item; two image
\* items; an image item that does not decode.
ConcurrentBodies ==
    { SubmissionJson(Submission(
          <<DataItem(1, <<"\"","~e">>, <<"T","x","t">>)>>, Filter1)),
      SubmissionJson(Submission(
          <<DataItem(1, <<"Q","Q","=","=">>, <<"i","m","a","g","e">>),
            DataItem(2, <<"Q","Q","=","=">>, <<"I","m","a","g","E">>)>>, Filter2)),
      SubmissionJson(Submission(
          <<DataItem(2, <<"Q">>, <<"i","m","a","g","e">>)>>, Filter1)) }

\* The requests run in the server's thread pool: their steps interleave.
NextConc ==
    \E r \in Requests :
        \/ pc[r] = "idle" /\ \E b \in ConcurrentBodies : Receive(r, b)
        \/ Handle(r, FALSE)

SpecConc == Init /\ [][NextConc]_vars


\* The same, with uuid4() free to return a value it returned before, so that
\* the UNIQUE constraint on question_id and the object store's refusal of an
\* existing name are exercised.
NextCollide ==
    \E r \in Requests :
        \/ pc[r] = "idle" /\ \E b \in ConcurrentBodies : Receive(r, b)
        \/ Handle(r, TRUE)

SpecCollide == Init /\ [][NextCollide]_vars

(***************************************************************************)
(* Vocabulary of the properties.                                           *)
(***************************************************************************)
Image == <<"i","m","a","g","e">>
IsImageItem(item) == lower(item.type) = Image

\* The number of image items among the first i items.
ImageRank(data, i) == Cardinality({j \in 1..i : IsImageItem(data[j])})
ImageCount(data) == ImageRank(data, Len(data))
\* The position of the j-th image item.
NthImage(data, j) ==
    CHOOSE i \in 1..Len(data) : IsImageItem(data[i]) /\ ImageRank(data, i) = j

\* {question_id}_{j}.png
ExpectedName(question_id, j) ==
    question_id \o <<"_">> \o IntToStr(j) \o <<".","p","n","g">>

Started(r) == question_uuid[r] # <<>>
Terminal(r) == pc[r] \in {"Responded", "Error"}
LoopDone(r) == record[r] # NoRecord

CallsOf(r, ops) == SelectSeq(calls[r], LAMBDA c : c.op \in ops)
UploadCalls(r) == CallsOf(r, {"upload"})
Made(r, call) == \E k \in 1..Len(calls[r]) : calls[r][k] = call
Failed(call) == call.result \in {"raised", "falsy"}

\* The committed rows that carry the question_id of request r.
RowsOf(r) == IF Started(r) THEN {row \in questions : row.question_id = question_uuid[r]}
             ELSE {}
Stored(name) == \E o \in bucket : o.name = name

(***************************************************************************)
(* C1: a row of a request exists, committed or not, only if every item of  *)
(* the request was processed without error; a request in which a decode or *)
(* an upload failed executes no insert and no commit.                      *)
(***************************************************************************)
C1_AllOrNothing ==
    \A r \in Requests :
        LET data == submission[r].data
            processing == CallsOf(r, {"b64decode", "upload", "get_public_url"})
        IN  /\ (RowsOf(r) \cup transaction[r] # {}) =>
                   /\ Len(processed_data[r]) = Len(data)
                   /\ \A k \in 1..Len(processing) : ~Failed(processing[k])
                   /\ \A i \in 1..Len(data) : IsImageItem(data[i]) =>
                          /\ b64decode(data[i].value).ok
                          /\ Made(r, Call("upload", i,
                                 ExpectedName(question_uuid[r], ImageRank(data, i)), "stored"))
            /\ (\E k \in 1..Len(calls[r]) :
                    calls[r][k].op \in {"b64decode", "upload"} /\ Failed(calls[r][k])) =>
                   /\ CallsOf(r, {"execute", "commit"}) = <<>>
                   /\ RowsOf(r) \cup transaction[r] = {}

\* An upload of the second image fails after the first was stored: no row.
C1_Witness ==
    /\ pc[1] = "Error"
    /\ Len(UploadCalls(1)) = 2
    /\ UploadCalls(1)[1].result = "stored"
    /\ UploadCalls(1)[2].result = "falsy"
    /\ questions = {}

(***************************************************************************)
(* C2: the upload calls of a request are named {question_id}_1.png,        *)
(* {question_id}_2.png, ... in the order of its image items (items whose   *)
(* type is "image" ignoring case), other items taking no counter value;    *)
(* when the loop has ended there are exactly as many calls as image items, *)
(* all stored, and the record carries the same question_id.                *)
(***************************************************************************)
C2_UploadNames ==
    \A r \in Requests :
        LET data == submission[r].data
            ups == UploadCalls(r)
        IN  /\ Len(ups) <= ImageCount(data)
            /\ \A j \in 1..Len(ups) :
                   /\ ups[j].name = ExpectedName(question_uuid[r], j)
                   /\ ups[j].item = NthImage(data, j)
            /\ LoopDone(r) =>
                   /\ Len(ups) = ImageCount(data)
                   /\ \A j \in 1..Len(ups) : ups[j].result = "stored"
                   /\ record[r].question_id = question_uuid[r]
                   /\ \A row \in transaction[r] : row.question_id = question_uuid[r]

\* Image, text, image: two uploads, and the record is persisted.
C2_Witness ==
    /\ pc[1] = "Responded"
    /\ Len(submission[1].data) = 3
    /\ IsImageItem(submission[1].data[1])
    /\ ~IsImageItem(submission[1].data[2])
    /\ submission[1].data[3].type = <<"I","m","a","g","E">>
    /\ Len(UploadCalls(1)) = 2
    /\ RowsOf(1) # {}

(***************************************************************************)
(* C3: the data of a persisted record has one item for each input item,    *)
(* with the id and the type string of the input item at the same position. *)
(***************************************************************************)
C3_DataShape ==
    \A r \in Requests : \A row \in RowsOf(r) :
        LET data == submission[r].data
        IN  /\ Len(row.data) = Len(data)
            /\ \A i \in 1..Len(data) :
                   /\ row.data[i].id = data[i].id
                   /\ row.data[i].type = data[i].type

\* A persisted record of three items with descending ids, one of them not an image.
C3_Witness ==
    \E row \in RowsOf(1) :
        /\ Len(row.data) = 3
        /\ row.data[1].id = 3 /\ row.data[3].id = 1
        /\ row.data[2].type = <<"T","x","t">>
        /\ row.data[3].type = <<"I","m","a","g","E">>

(***************************************************************************)
(* C4: a request without image items makes no upload call, and the data of *)
(* its persisted record is the input item sequence: the same id, type and  *)
(* value at every position.                                                *)
(***************************************************************************)
C4_TextVerbatim ==
    \A r \in Requests :
        LET data == submission[r].data
        IN  (Started(r) /\ ImageCount(data) = 0) =>
                /\ UploadCalls(r) = <<>>
                /\ bucket = {}
                /\ \A row \in RowsOf(r) :
                       /\ Len(row.data) = Len(data)
                       /\ \A i \in 1..Len(data) :
                              /\ row.data[i].id = data[i].id
                              /\ row.data[i].type = data[i].type
                              /\ row.data[i].value = data[i].value

\* A persisted record of two text items, one with a quote and a non-ASCII character.
C4_Witness ==
    \E row \in RowsOf(1) :
        /\ Len(row.data) = 2
        /\ ImageCount(submission[1].data) = 0
        /\ row.data[1].value = <<"\"","~e">>
        /\ row.data[2].value = <<"Q">>

(***************************************************************************)
(* C5: in a persisted record the value of an image item is the public URL  *)
(* of the object the same request stored under the item's name, with the   *)
(* decoded bytes of the item; it is not the item's input value.            *)
(***************************************************************************)
C5_ImageUrl ==
    \A r \in Requests : \A row \in RowsOf(r) :
        LET data == submission[r].data
        IN  \A i \in 1..Len(data) : IsImageItem(data[i]) =>
                LET name == ExpectedName(question_uuid[r], ImageRank(data, i))
                IN  /\ i <= Len(row.data)
                    /\ row.data[i].value = get_public_url(name)
                    /\ row.data[i].value # data[i].value
                    /\ Made(r, Call("upload", i, name, "stored"))
                    /\ [name |-> name, bytes |-> b64decode(data[i].value).bytes] \in bucket

\* A persisted record with two image items.
C5_Witness ==
    \E row \in RowsOf(1) :
        /\ ImageCount(submission[1].data) = 2
        /\ Cardinality(bucket) = 2

(***************************************************************************)
(* C6: for an image item whose value does not decode, no upload call is    *)
(* made for it or for a later item and no row is inserted; once the decode *)
(* has raised, the request has ended with status 400, the decode is its    *)
(* last call, and the objects it stored for earlier items are still in the *)
(* bucket.                                                                 *)
(***************************************************************************)
C6_DecodeFailure ==
    \A r \in Requests :
        LET data == submission[r].data
        IN  \A i \in 1..Len(data) :
                (IsImageItem(data[i]) /\ ~b64decode(data[i].value).ok) =>
                    /\ \A k \in 1..Len(calls[r]) :
                           calls[r][k].op = "upload" => calls[r][k].item < i
                    /\ CallsOf(r, {"execute", "commit"}) = <<>>
                    /\ RowsOf(r) \cup transaction[r] = {}
                    /\ item_index[r] <= i
                    /\ Made(r, Call("b64decode", i, <<>>, "raised")) =>
                           /\ pc[r] = "Error"
                           /\ response[r].status = 400
                           /\ response[r].detail = "Error decoding image data"
                           /\ calls[r][Len(calls[r])].op = "b64decode"
                           /\ \A k \in 1..Len(calls[r]) :
                                  (calls[r][k].op = "upload" /\ calls[r][k].result = "stored")
                                      => Stored(calls[r][k].name)

\* The second image item does not decode after the first was stored.
C6_Witness ==
    /\ pc[1] = "Error"
    /\ response[1].status = 400
    /\ Made(1, Call("b64decode", 2, <<>>, "raised"))
    /\ Len(UploadCalls(1)) = 1
    /\ Cardinality(bucket) = 1
    /\ questions = {}

(***************************************************************************)
(* C7: an upload call that raises or returns a falsy result is the last    *)
(* call of its request, which has ended with status 500 and the upload     *)
(* error detail: the item is not uploaded again, no later item is decoded  *)
(* or uploaded, and no insert is attempted.                                *)
(***************************************************************************)
C7_UploadFailure ==
    \A r \in Requests : \A k \in 1..Len(calls[r]) :
        (calls[r][k].op = "upload" /\ Failed(calls[r][k])) =>
            /\ k = Len(calls[r])
            /\ pc[r] = "Error"
            /\ response[r].status = 500
            /\ response[r].detail = "Error uploading image"
            /\ \A j \in 1..Len(calls[r]) :
                   (j # k /\ calls[r][j].op = "upload") => calls[r][j].item < calls[r][k].item
            /\ RowsOf(r) \cup transaction[r] = {}

\* The store returns a falsy result for the first of two image items.
C7_Witness ==
    /\ ImageCount(submission[1].data) = 2
    /\ Len(UploadCalls(1)) = 1
    /\ UploadCalls(1)[1].result = "falsy"
    /\ pc[1] = "Error"

(***************************************************************************)
(* C8: a request whose insert or commit failed has rolled back, ended with *)
(* status 500 and left no row; a request whose insert and commit succeeded *)
(* ends with a response that carries the id of its row.                    *)
(***************************************************************************)
C8_InsertOutcome ==
    \A r \in Requests :
        Terminal(r) =>
            /\ (Made(r, Call("execute", 0, <<>>, "raised"))
                    \/ Made(r, Call("commit", 0, <<>>, "raised"))) =>
                   /\ Made(r, Call("rollback", 0, <<>>, "ok"))
                   /\ response[r].status = 500
                   /\ response[r].detail = "Error inserting record"
                   /\ RowsOf(r) \cup transaction[r] = {}
            /\ (Made(r, Call("execute", 0, <<>>, "ok"))
                    /\ Made(r, Call("commit", 0, <<>>, "ok"))) =>
                   /\ response[r].status = 200
                   /\ \E row \in RowsOf(r) : row.id = response[r].submission_id

(***************************************************************************)
(* C9: a request that responded with success committed exactly once, and   *)
(* its submission_id is the id of a row with its question_id; there are as *)
(* many rows as commits; no two rows share a question_id or an id, and no  *)
(* two successful requests return the same submission_id.                  *)
(***************************************************************************)
Committed(r) == Made(r, Call("commit", 0, <<>>, "ok"))

C9_OneRowPerSuccess ==
    /\ \A r \in Requests :
           pc[r] = "Responded" =>
               /\ response[r].status = 200
               /\ Len(CallsOf(r, {"commit"})) = 1
               /\ Committed(r)
               /\ \E row \in questions :
                      /\ row.id = response[r].submission_id
                      /\ row.question_id = question_uuid[r]
    /\ Cardinality(questions) = Cardinality({r \in Requests : Committed(r)})
    /\ \A row1, row2 \in questions :
           row1 # row2 => (row1.question_id # row2.question_id /\ row1.id # row2.id)
    /\ \A r1, r2 \in Requests :
           (r1 # r2 /\ pc[r1] = "Responded" /\ pc[r2] = "Responded")
               => response[r1].submission_id # response[r2].submission_id

\* Two requests drew the same UUID: one has responded with success, the
\* other was refused by the UNIQUE constraint.
C9_Witness ==
    /\ question_uuid[1] = question_uuid[2]
    /\ pc[1] = "Responded"
    /\ pc[2] = "Error"
    /\ Made(2, Call("execute", 0, <<>>, "raised"))
    /\ Cardinality(questions) = 1

(***************************************************************************)
(* C10: a request whose body misses a required field, or has a field whose *)
(* value cannot be converted to the declared type, ends in a validation    *)
(* error with status 422 before any question_id is generated, any upload   *)
(* call is made or any insert is attempted (C10_Rejected422).  The claim   *)
(* as written, status 400 for every missing or mistyped field, is          *)
(* C10_Rejected400.                                                        *)
(***************************************************************************)
Rejected(r) ==
    /\ pc[r] = "Error"
    /\ response[r].detail = "validation error"
    /\ question_uuid[r] = <<>>
    /\ calls[r] = <<>>
    /\ cursor[r] = "none"
    /\ transaction[r] = {}

FailedStep(r, ops) ==
    \E k \in 1..Len(calls[r]) : calls[r][k].op \in ops /\ Failed(calls[r][k])

C11_ErrorTaxonomy ==
    \A r \in Requests :
        Terminal(r) =>
            /\ (~SubmissionValid(body[r])) =>
                   /\ pc[r] = "Error"
                   /\ response[r].status = 400
                   /\ response[r].detail = "validation error"
            /\ FailedStep(r, {"b64decode"}) =>
                   /\ pc[r] = "Error"
                   /\ response[r] = HTTPException(400, "Error decoding image data")
            /\ FailedStep(r, {"upload", "get_public_url"}) =>
                   /\ pc[r] = "Error"
                   /\ response[r].status = 500
                   /\ response[r].detail \in {"Error uploading image", "Error inserting record"}
            /\ FailedStep(r, {"execute", "commit", "fetchone"}) =>
                   /\ pc[r] = "Error"
                   /\ response[r] = HTTPException(500, "Error inserting record")

(***************************************************************************)
(* C12: every step of a request keeps its state or moves it to the next    *)
(* one in the order Received, Validated, ItemsProcessed, Assembled,        *)
(* Persisted, Responded, or leaves to Error from a state before Persisted; *)
(* a request that has committed never leaves to Error, and a request in    *)
(* Error has inserted no row.                                              *)
(***************************************************************************)
\* The state of the request's state machine that a position in the handler
\* belongs to: items are processed once the loop has no item left, and the
\* except block is the failure exit.
StateOf(r) ==
    CASE pc[r] = "idle" -> "Idle"
      [] pc[r] = "Received" -> "Received"
      [] pc[r] \in {"Validated", "upload", "get_public_url"} -> "Validated"
      [] pc[r] = "loop" -> IF item_index[r] > Len(submission[r].data)
                           THEN "ItemsProcessed" ELSE "Validated"
      [] pc[r] \in {"Assembled", "commit"} -> "Assembled"
      [] pc[r] = "Persisted" -> "Persisted"
      [] pc[r] = "Responded" -> "Responded"
      [] pc[r] \in {"except", "Error"} -> "Error"

StateOrder ==
    { <<"Idle", "Received">>, <<"Received", "Validated">>,
      <<"Validated", "ItemsProcessed">>, <<"ItemsProcessed", "Assembled">>,
      <<"Assembled", "Persisted">>, <<"Persisted", "Responded">> }

FailureExits ==
    { <<s, "Error">> : s \in {"Received", "Validated", "ItemsProcessed", "Assembled"} }

C12_StateMachine ==
    [][\A r \in Requests :
           /\ StateOf(r)' # StateOf(r) =>
                  <<StateOf(r), StateOf(r)'>> \in StateOrder \cup FailureExits
           /\ Committed(r)' => StateOf(r)' \in {"Persisted", "Responded"}
           /\ StateOf(r)' = "Error" => RowsOf(r)' = {}]_vars

(***************************************************************************)
(* C13: every object a request uploaded is in the store from then on, with *)
(* the bytes it was uploaded with; and when the request has failed because *)
(* an item failed to decode or to upload, URL resolution failed, or the    *)
(* insert or its commit failed, the objects it uploaded before are still   *)
(* in the store and no row, committed or pending, refers to them.          *)
(***************************************************************************)
\* The row is the request's own, or an entry of its data holds the public
\* URL of the object.
References(row, r, name) ==
    \/ row.question_id = question_uuid[r]
    \/ \E i \in 1..Len(row.data) : row.data[i].value = get_public_url(name)

StoredUploads(r) == SelectSeq(calls[r], LAMBDA c : c.op = "upload" /\ c.result = "stored")

PositionOf(r, op, i, result) ==
    LET found == {k \in 1..Len(calls[r]) :
                     /\ calls[r][k].op = op
                     /\ calls[r][k].item = i
                     /\ calls[r][k].result = result}
    IN  IF found = {} THEN 0 ELSE CHOOSE k \in found : \A j \in found : k <= j

C14_SequentialUploads ==
    \A r \in Requests :
        /\ \A k \in 1..Len(calls[r]) :
               calls[r][k].op = "upload" =>
                   LET i == calls[r][k].item
                   IN  /\ IsImageItem(submission[r].data[i])
                       /\ k > 1 /\ calls[r][k - 1] = Call("b64decode", i, <<>>, "ok")
                       /\ \A e \in 1..(i - 1) :
                              IsImageItem(submission[r].data[e]) =>
                                  /\ 0 < PositionOf(r, "b64decode", e, "ok")
                                  /\ PositionOf(r, "b64decode", e, "ok")
                                         < PositionOf(r, "upload", e, "stored")
                                  /\ PositionOf(r, "upload", e, "stored")
                                         < PositionOf(r, "get_public_url", e, "ok")
                                  /\ PositionOf(r, "get_public_url", e, "ok") < k - 1
        /\ \A k \in 1..Len(UploadCalls(r)) :
               /\ UploadCalls(r)[k].name = ExpectedName(question_uuid[r], k)
               /\ UploadCalls(r)[k].item = NthImage(submission[r].data, k)
               /\ k < Len(UploadCalls(r)) => UploadCalls(r)[k].result = "stored"

\* Three image items: the third upload call has been made.
C14_Witness ==
    /\ ImageCount(submission[1].data) = 3
    /\ Len(UploadCalls(1)) = 3
    /\ pc[1] = "get_public_url"

(***************************************************************************)
(* C15: every row, committed or pending, was inserted by a request whose   *)
(* generated UUID is the row's question_id, and its materia, assunto,      *)
(* sub_assunto, faculdade and ano columns hold the values of materia,      *)
(* assunto, subAssunto, faculdade and ano of that request's filter, not    *)
(* wrapped in anything.                                                    *)
(***************************************************************************)
FilterColumns(row) ==
    [materia |-> row.materia, assunto |-> row.assunto, sub_assunto |-> row.sub_assunto,
     faculdade |-> row.faculdade, ano |-> row.ano]

C15_FilterColumns ==
    \A row \in questions \cup UNION {transaction[r] : r \in Requests} :
        \E r \in Requests :
            /\ Made(r, Call("uuid4", 0, row.question_id, "ok"))
            /\ row.question_id = question_uuid[r]
            /\ FilterColumns(row) =
                   [materia |-> submission[r].filter.materia,
                    assunto |-> submission[r].filter.assunto,
                    sub_assunto |-> submission[r].filter.subAssunto,
                    faculdade |-> submission[r].filter.faculdade,
                    ano |-> submission[r].filter.ano]

\* A committed row of a request whose filter has two materia entries, no
\* assunto entry and an empty faculdade.
C15_Witness ==
    \E row \in questions :
        /\ row.question_id = question_uuid[1]
        /\ row.materia = << <<"m">>, <<"f">> >>
        /\ row.assunto = <<>>
        /\ row.sub_assunto = << <<"s">> >>
        /\ row.faculdade = <<>>
        /\ row.ano = <<"2","5">>

(***************************************************************************)
(* C16: in every state of every interleaving of the requests, no two       *)
(* upload calls of different requests carry the same name; no request      *)
(* finds its object name taken in the store or its insert held up or       *)
(* refused because of another request; and the counter, the processed      *)
(* list, the upload names, the persisted data and the kind of response of  *)
(* a request are what its own items, its own UUID and the answers to its   *)
(* own calls make them.                                                    *)
(***************************************************************************)
\* The entry of the processed list that item i of request r makes alone.
OwnEntry(r, i) ==
    LET data == submission[r].data
    IN  [id |-> data[i].id,
         type |-> data[i].type,
         value |-> IF IsImageItem(data[i])
                   THEN get_public_url(ExpectedName(question_uuid[r], ImageRank(data, i)))
                   ELSE data[i].value]

\* The status and detail that the request's own body and the answers to its
\* own calls lead to.
OwnResponse(r) ==
    IF ~SubmissionValid(body[r]) THEN <<ValidationStatus, "validation error">>
    ELSE IF FailedStep(r, {"b64decode"}) THEN <<DecodeStatus, "Error decoding image data">>
    ELSE IF FailedStep(r, {"upload"}) THEN <<UploadStatus, "Error uploading image">>
    ELSE IF FailedStep(r, {"get_public_url"}) THEN <<UnhandledStatus, "Internal Server Error">>
    ELSE IF FailedStep(r, {"execute", "commit", "fetchone"})
    THEN <<InsertStatus, "Error inserting record">>
    ELSE <<SuccessStatus, "Submission created successfully">>

Independent(r) ==
    LET uploads == UploadCalls(r)
        data == submission[r].data
    IN  /\ \A o \in Requests \ {r} : \A j \in 1..Len(calls[o]) :
               calls[o][j].op = "upload" =>
                   \A k \in 1..Len(uploads) : uploads[k].name # calls[o][j].name
        /\ pc[r] = "upload" => ~Stored(filename[r])
        /\ pc[r] = "Assembled" => /\ ~WaitsForOther(r, record[r].question_id)
                                  /\ ~UniqueViolation(record[r].question_id)
        /\ Started(r) =>
               /\ image_counter[r] =
                      1 + Len(SelectSeq(calls[r], LAMBDA c : c.op = "b64decode" /\ ~Failed(c)))
               /\ processed_data[r] = [i \in 1..Len(processed_data[r]) |-> OwnEntry(r, i)]
               /\ \A k \in 1..Len(uploads) :
                      uploads[k].name = ExpectedName(question_uuid[r], k)
               /\ \A row \in RowsOf(r) : row.data = [i \in 1..Len(data) |-> OwnEntry(r, i)]
        /\ Terminal(r) => <<response[r].status, response[r].detail>> = OwnResponse(r)

C16_Independent == \A r \in Requests : Independent(r)

\* Two requests with two image items each ran interleaved: all four objects
\* are stored, and the request that arrived as 1 committed after request 2.
C16_Witness ==
    /\ pc[1] = "Responded" /\ pc[2] = "Responded"
    /\ Len(UploadCalls(1)) = 2 /\ Len(UploadCalls(2)) = 2
    /\ Cardinality(bucket) = 4
    /\ response[1].submission_id = 2
    /\ response[2].submission_id = 1

(***************************************************************************)
(* C17: with every call returning, a request that was received eventually  *)
(* reaches Responded or Error, and it reaches it having made each call at  *)
(* most once (one upload at most per image item and none for another item, *)
(* one insert and one commit at most) and, after a call that failed, no    *)
(* call but the rollback.                                                  *)
(***************************************************************************)
AtMostOnce(r) ==
    /\ \A j, k \in 1..Len(calls[r]) :
           (calls[r][j].op = calls[r][k].op /\ calls[r][j].item = calls[r][k].item) => j = k
    /\ \A k \in 1..Len(calls[r]) :
           /\ calls[r][k].op = "upload" => IsImageItem(submission[r].data[calls[r][k].item])
           /\ Failed(calls[r][k]) =>
                  \A j \in (k + 1)..Len(calls[r]) : calls[r][j].op = "rollback"
    /\ Len(CallsOf(r, {"execute"})) <= 1
    /\ Len(CallsOf(r, {"commit"})) <= 1

C17_Terminates == (pc[1] = "Received") ~> (Terminal(1) /\ AtMostOnce(1))

\* The request has ended after its commit failed and was rolled back, with
\* two objects uploaded.
C17_Witness ==
    /\ Terminal(1)
    /\ Len(UploadCalls(1)) = 2
    /\ Made(1, Call("commit", 0, <<>>, "raised"))
    /\ calls[1][Len(calls[1])].op = "rollback"

(***************************************************************************)
(* C18: a request that has ended, in success or in any error, has its      *)
(* connection closed and has left no cursor open.                          *)
(***************************************************************************)
C18_HandlesClosed ==
    \A r \in Requests :
        Terminal(r) =>
            /\ conn[r] = "closed"
            /\ cursor[r] # "open"

====
